---------------------------- MODULE Spec2Model ----------------------------
(***************************************************************************)
(* rcalc: the lexer of src/lex.rs, the recursive-descent parser of         *)
(* src/parse.rs and the part of parse::eval that decides between Ok,       *)
(* Lex and Incomplete.                                                     *)
(*                                                                         *)
(* A text is a sequence of one-character strings.  The lexer is the pair   *)
(* (input, ci): ci is the number of characters the character iterator has  *)
(* yielded, so the next character is input[ci + 1] and its 0-based index   *)
(* (the index `enumerate` pairs it with) is ci.                            *)
(***************************************************************************)
EXTENDS Integers, Sequences, FiniteSets, TLC

(***************************************************************************)
(* Bounds of the model.                                                    *)
(***************************************************************************)
MaxLen == 4

MaxGrammarLen == 5

MaxLiveLen == 3

(***************************************************************************)
(* Characters.                                                             *)
(***************************************************************************)
Digits == {"0", "1", "2", "3", "4", "5", "6", "7", "8", "9"}

(***************************************************************************)
(* char::is_whitespace: the Unicode White_Space property.  U+0009..U+000D, *)
(* U+0020, U+0085, U+00A0 and U+1680 are listed; the others of the         *)
(* property (U+2000..U+200A, U+2028, U+2029, U+202F, U+205F, U+3000)       *)
(* cannot be written in a string of this language, so no text of the model *)
(* holds them.                                                             *)
(***************************************************************************)
is_whitespace(c) == c \in {"\t", "\n", "", "\f", "\r", " ", "", " ", " "}

is_ascii_digit(c) == c \in Digits

DigitValue(c) ==
  CASE c = "0" -> 0 [] c = "1" -> 1 [] c = "2" -> 2 [] c = "3" -> 3
    [] c = "4" -> 4 [] c = "5" -> 5 [] c = "6" -> 6 [] c = "7" -> 7
    [] c = "8" -> 8 [] c = "9" -> 9

(***************************************************************************)
(* Tokens (lex::Token, with the Percent variant parse.rs matches on).      *)
(* Every token has the same shape; val is meaningful for Number only.      *)
(* A number is <<m, s>>, standing for m / 10^s with no trailing zero in    *)
(* the fraction, so that equal literals ("1", "1.", "1.0") are equal.      *)
(***************************************************************************)
NoVal == <<0, 0>>

Tok(kind) == [kind |-> kind, val |-> NoVal]

Number(n) == [kind |-> "Number", val |-> n]

(***************************************************************************)
(* str::parse::<f64> on the text read_num collects: the first character    *)
(* is any character that is neither whitespace nor an operator, the rest   *)
(* are ASCII digits and dots.  Such a text is a float literal iff it is    *)
(* made of digits and at most one dot and has at least one digit (no sign, *)
(* no exponent, no "inf"/"nan" can occur in it).                           *)
(***************************************************************************)
CountOf(s, c) == Cardinality({k \in 1..Len(s) : s[k] = c})

F64Parses(s) ==
  /\ \A k \in 1..Len(s) : is_ascii_digit(s[k]) \/ s[k] = "."
  /\ CountOf(s, ".") <= 1
  /\ \E k \in 1..Len(s) : is_ascii_digit(s[k])

RECURSIVE Mantissa(_, _)
Mantissa(s, acc) ==
  IF s = <<>> THEN acc
  ELSE IF s[1] = "." THEN Mantissa(Tail(s), acc)
  ELSE Mantissa(Tail(s), 10 * acc + DigitValue(s[1]))

DotAt(s) == IF \E k \in 1..Len(s) : s[k] = "."
            THEN CHOOSE k \in 1..Len(s) : s[k] = "."
            ELSE Len(s)

RECURSIVE Normalise(_, _)
Normalise(m, sc) ==
  IF sc > 0 /\ m % 10 = 0 THEN Normalise(m \div 10, sc - 1) ELSE <<m, sc>>

F64Value(s) == Normalise(Mantissa(s, 0), Len(s) - DotAt(s))

(***************************************************************************)
(* lex::LexResult { pos, token: Result<Token, LexErr> }.                   *)
(***************************************************************************)
EXPECTED_NUMBER == "Expected number"

LexOk(pos, tok) == [pos |-> pos, ok |-> TRUE, tok |-> tok, msg |-> ""]

LexErr(pos, msg) == [pos |-> pos, ok |-> FALSE, tok |-> Tok("None"), msg |-> msg]

(***************************************************************************)
(* read_num: the loop that extends the literal.  i is the number of        *)
(* characters consumed so far; the result is that number when the loop     *)
(* exits.  A character is only peeked before the loop decides to take it.  *)
(***************************************************************************)
RECURSIVE read_num_loop(_, _, _)
read_num_loop(text, i, found_dot) ==
  IF i >= Len(text) THEN i
  ELSE LET c == text[i + 1] IN
       IF c = "." /\ found_dot THEN i
       ELSE IF is_ascii_digit(c) \/ c = "."
            THEN read_num_loop(text, i + 1, found_dot \/ c = ".")
            ELSE i

(***************************************************************************)
(* read_num(c, iter): c is the character already taken by next_token, i    *)
(* the iterator's position after it.  The position it reports is its own   *)
(* local `let i = 0`.                                                      *)
(***************************************************************************)
read_num(c, text, i) ==
  LET e   == read_num_loop(text, i, FALSE)
      num == <<c>> \o SubSeq(text, i + 1, e)
  IN  [res |-> IF F64Parses(num)
               THEN LexOk(0, Number(F64Value(num)))
               ELSE LexErr(0, EXPECTED_NUMBER),
       ci  |-> e]

(***************************************************************************)
(* next_token(iter): skips whitespace, maps the seven one-character        *)
(* tokens, hands every other character to read_num; End (position: the     *)
(* local `let i = 0`) when the characters run out.                         *)
(***************************************************************************)
OpKind(c) ==
  CASE c = "(" -> "LParen" [] c = ")" -> "RParen" [] c = "+" -> "Plus"
    [] c = "-" -> "Dash"   [] c = "*" -> "Star"   [] c = "/" -> "Slash"
    [] c = "^" -> "Caret"  [] OTHER -> "None"

RECURSIVE next_token(_, _)
next_token(text, i) ==
  IF i >= Len(text) THEN [res |-> LexOk(0, Tok("End")), ci |-> i]
  ELSE LET c == text[i + 1] IN
       IF is_whitespace(c) THEN next_token(text, i + 1)
       ELSE IF OpKind(c) # "None"
            THEN [res |-> LexOk(i, Tok(OpKind(c))), ci |-> i + 1]
            ELSE read_num(c, text, i + 1)

(***************************************************************************)
(* Lexer::next: End becomes None, everything else Some(x).  The item is    *)
(* what the parser's patterns see: Ok((pos, token)) or Err((pos, msg)).    *)
(***************************************************************************)
None == [some |-> FALSE, pos |-> 0, ok |-> TRUE, tok |-> Tok("None"), msg |-> ""]

Some(x) == [some |-> TRUE, pos |-> x.pos, ok |-> x.ok, tok |-> x.tok, msg |-> x.msg]

LexerNext(text, i) ==
  LET r == next_token(text, i) IN
  [item |-> IF r.res.ok /\ r.res.tok.kind = "End" THEN None ELSE Some(r.res),
   ci   |-> r.ci]


(***************************************************************************)
(* parse::Expr as tuples: <<"Num", n>>, <<"Unary", op, x>>,                *)
(* <<"Binary", op, l, r>>.  NoExpr fills an unused slot.                   *)
(***************************************************************************)
NoExpr == <<"Nil">>

Num(n) == <<"Num", n>>

Unary(op, x) == <<"Unary", op, x>>

Binary(op, l, r) == <<"Binary", op, l, r>>

(***************************************************************************)
(* parse::CalcErr and ExprResult.                                          *)
(***************************************************************************)
UNEXPECTED_TOKEN == "not expected here"

NoErr == [kind |-> "None", pos |-> 0, msg |-> ""]

Incomplete == [kind |-> "Incomplete", pos |-> 0, msg |-> ""]

Lex(pos, msg) == [kind |-> "Lex", pos |-> pos, msg |-> msg]

Ok(e) == [ok |-> TRUE, expr |-> e, err |-> NoErr]

Err(e) == [ok |-> FALSE, expr |-> NoExpr, err |-> e]

NoResult == [ok |-> FALSE, expr |-> NoExpr, err |-> NoErr]

(***************************************************************************)
(* State.                                                                  *)
(*   input    the text given to parse::eval                                *)
(*   lexer    Peekable<lex::Lexer>: ci, the characters consumed, and       *)
(*            peeked, Peekable's one-item buffer                           *)
(*   yielded  every item Lexer::next has returned in this evaluation, in   *)
(*            order, each with the characters its scan consumed after      *)
(*            the whitespace: input[start + 1 .. end]                      *)
(*   pc       "idle", the parse function about to be entered, "return"     *)
(*            (a parse function has returned ret to the frame on top of    *)
(*            the stack), or "done"                                        *)
(*   stack    the active calls of the parse functions, innermost last      *)
(*   ret      the ExprResult being returned                                *)
(*   result   what parse::eval returned (the tree stands for its value)    *)
(*   hist     the kind of result of every evaluated prefix of input,       *)
(*            shortest first                                               *)
(*   stdin    the lines standard input still holds, each a text that ends  *)
(*            with "\n" (the last one may lack it); <<>> is end-of-input   *)
(***************************************************************************)
VARIABLES input, lexer, yielded, pc, stack, ret, result, hist, stdin

vars == <<input, lexer, yielded, pc, stack, ret, result, hist, stdin>>

(***************************************************************************)
(* The characters the texts are drawn from.  Alphabet: whitespace, a       *)
(* digit, the dot, the seven one-character tokens, and two characters      *)
(* next_token has no arm for.  GrammarAlphabet: what expressions are made  *)
(* of, for longer texts.  LiveAlphabet: one character of each kind (a      *)
(* lone dot is a run that is no literal).                                  *)
(***************************************************************************)
Alphabet == {" ", "1", ".", "+", "-", "*", "/", "^", "(", ")", "&", "%"}

GrammarAlphabet == {"1", "2", "+", "-", "*", "^", "(", ")"}

LiveAlphabet == {" ", "1", ".", "+", "-", "*", "^", "(", ")"}

(***************************************************************************)
(* Lexer::new(input).peekable()                                            *)
(***************************************************************************)
EmptySlot == [full |-> FALSE, item |-> None]

NewLexer == [ci |-> 0, peeked |-> EmptySlot]

(***************************************************************************)
(* The index of the first character at or after i that is not whitespace   *)
(* (Len(text) when there is none): where the scan of next_token stops      *)
(* skipping.                                                               *)
(***************************************************************************)
RECURSIVE SkipWs(_, _)
SkipWs(text, i) ==
  IF i < Len(text) /\ is_whitespace(text[i + 1]) THEN SkipWs(text, i + 1) ELSE i

(***************************************************************************)
(* Peekable::peek and Peekable::next.  Both call Lexer::next only when     *)
(* the buffer is empty; peek fills the buffer, next empties it.            *)
(***************************************************************************)
Front(text, lx) ==
  IF lx.peeked.full THEN lx.peeked.item ELSE LexerNext(text, lx.ci).item

AfterPeek(text, lx) ==
  IF lx.peeked.full THEN lx
  ELSE [ci |-> LexerNext(text, lx.ci).ci,
        peeked |-> [full |-> TRUE, item |-> LexerNext(text, lx.ci).item]]

AfterNext(text, lx) ==
  [ci |-> IF lx.peeked.full THEN lx.ci ELSE LexerNext(text, lx.ci).ci,
   peeked |-> EmptySlot]

Logged(text, lx, log) ==
  IF lx.peeked.full THEN log
  ELSE Append(log, [item  |-> LexerNext(text, lx.ci).item,
                    start |-> SkipWs(text, lx.ci),
                    end   |-> LexerNext(text, lx.ci).ci])

IsTok(item, kinds) == item.some /\ item.ok /\ item.tok.kind \in kinds

(***************************************************************************)
(* Call frames.                                                            *)
(***************************************************************************)
Frame(fn, op, lhs) == [fn |-> fn, op |-> op, lhs |-> lhs]

Top == stack[Len(stack)]

Pop == SubSeq(stack, 1, Len(stack) - 1)

Push(f) == Append(stack, f)

Returned(fn) == pc = "return" /\ stack # <<>> /\ Top.fn = fn

Init ==
  /\ input = <<>>
  /\ lexer = NewLexer
  /\ yielded = <<>>
  /\ pc = "idle"
  /\ stack = <<>>
  /\ ret = NoResult
  /\ result = NoResult
  /\ hist = <<>>
  /\ stdin = <<>>

(***************************************************************************)
(* parse::eval -> parse -> parse_complete_expr, up to its call of          *)
(* parse_expr.                                                             *)
(***************************************************************************)
Evaluate ==
  /\ pc = "idle"
  /\ lexer' = NewLexer
  /\ yielded' = <<>>
  /\ stack' = <<Frame("parse_complete_expr", "First", NoExpr)>>
  /\ pc' = "parse_expr"
  /\ ret' = NoResult
  /\ result' = NoResult
  /\ UNCHANGED <<stdin, input, hist>>

(***************************************************************************)
(* The binary-operator loops of parse_expr, parse_term and parse_factor    *)
(* have one shape: parse the first operand with `first`; then peek; on an  *)
(* operator of the level consume it, parse the right operand with `rhs`    *)
(* and fold it to the left of the loop; on anything else (no item, an      *)
(* error item, another token) return the expression, leaving the peeked    *)
(* item in the buffer.                                                     *)
(***************************************************************************)
LevelEnter(fn, first) ==
  /\ pc = fn
  /\ stack' = Push(Frame(fn, "First", NoExpr))
  /\ pc' = first
  /\ UNCHANGED <<stdin, input, lexer, yielded, ret, result, hist>>

ExprOp(kind) ==
  CASE kind = "Plus" -> "Add" [] kind = "Dash" -> "Sub" [] OTHER -> "None"

TermOp(kind) ==
  CASE kind = "Star" -> "Mul" [] kind = "Slash" -> "Div"
    [] kind = "Percent" -> "Mod" [] OTHER -> "None"

FactorOp(kind) ==
  CASE kind = "Caret" -> "Pow" [] OTHER -> "None"

LevelOp(fn, kind) ==
  CASE fn = "parse_expr" -> ExprOp(kind)
    [] fn = "parse_term" -> TermOp(kind)
    [] fn = "parse_factor" -> FactorOp(kind)

(***************************************************************************)
(* The arm `_ => return Ok(expr)` of the three loops, and the same arm     *)
(* without its return (the loop goes round again).                         *)
(***************************************************************************)
ReturnOkFallsThrough(expr) == UNCHANGED <<stack, pc, ret>>

ReturnOk(expr) ==
  /\ stack' = Pop
  /\ pc' = "return"
  /\ ret' = Ok(expr)

LevelResume(fn, rhs) ==
  /\ Returned(fn)
  /\ IF ~ret.ok
     THEN /\ stack' = Pop
          /\ UNCHANGED <<lexer, yielded, pc, ret>>
     ELSE LET expr == IF Top.op = "First" THEN ret.expr
                      ELSE Binary(Top.op, Top.lhs, ret.expr)
              item == Front(input, lexer)
          IN  /\ yielded' = Logged(input, lexer, yielded)
              /\ IF item.some /\ item.ok /\ LevelOp(fn, item.tok.kind) # "None"
                 THEN /\ lexer' = AfterNext(input, AfterPeek(input, lexer))
                      /\ stack' = Append(Pop, Frame(fn, LevelOp(fn, item.tok.kind), expr))
                      /\ pc' = rhs
                      /\ ret' = NoResult
                 ELSE /\ lexer' = AfterPeek(input, lexer)
                      /\ ReturnOk(expr)
  /\ UNCHANGED <<stdin, input, result, hist>>

parse_expr_enter == LevelEnter("parse_expr", "parse_term")

parse_expr_loop == LevelResume("parse_expr", "parse_term")

parse_term_enter == LevelEnter("parse_term", "parse_factor")

parse_term_loop == LevelResume("parse_term", "parse_factor")

parse_factor_enter == LevelEnter("parse_factor", "parse_primary")

(***************************************************************************)
(* parse_factor parses the right operand of '^' with parse_factor;         *)
(* parse_factor_loop_primary is the loop with parse_primary there.         *)
(***************************************************************************)
parse_factor_loop_primary == LevelResume("parse_factor", "parse_primary")

parse_factor_loop == LevelResume("parse_factor", "parse_factor")

(***************************************************************************)
(* parse_primary: takes one item.  A number is a leaf, '(' goes on in      *)
(* parse_parenthesised (its result is returned as it is), '-' parses its   *)
(* operand with NegOperandRule and wraps it in Unary(Neg, _).              *)
(* NegOperandPrimary is the tighter rule the operand could be parsed with. *)
(***************************************************************************)
NegOperandPrimary == "parse_primary"

NegOperandRule == "parse_factor"

parse_primary ==
  /\ pc = "parse_primary"
  /\ LET item == Front(input, lexer) IN
     /\ lexer' = AfterNext(input, lexer)
     /\ yielded' = Logged(input, lexer, yielded)
     /\ IF ~item.some
        THEN /\ ret' = Err(Incomplete)
             /\ pc' = "return"
             /\ UNCHANGED stack
        ELSE IF ~item.ok
        THEN /\ ret' = Err(Lex(item.pos, item.msg))
             /\ pc' = "return"
             /\ UNCHANGED stack
        ELSE IF item.tok.kind = "Number"
        THEN /\ ret' = Ok(Num(item.tok.val))
             /\ pc' = "return"
             /\ UNCHANGED stack
        ELSE IF item.tok.kind = "LParen"
        THEN /\ ret' = NoResult
             /\ pc' = "parse_parenthesised"
             /\ UNCHANGED stack
        ELSE IF item.tok.kind = "Dash"
        THEN /\ ret' = NoResult
             /\ pc' = NegOperandRule
             /\ stack' = Push(Frame("parse_primary", "Neg", NoExpr))
        ELSE /\ ret' = Err(Lex(item.pos, UNEXPECTED_TOKEN))
             /\ pc' = "return"
             /\ UNCHANGED stack
  /\ UNCHANGED <<stdin, input, result, hist>>

parse_primary_neg ==
  /\ Returned("parse_primary")
  /\ stack' = Pop
  /\ ret' = IF ret.ok THEN Ok(Unary("Neg", ret.expr)) ELSE ret
  /\ UNCHANGED <<stdin, input, lexer, yielded, pc, result, hist>>

(***************************************************************************)
(* parse_parenthesised: a full expression, then one item is taken: an      *)
(* error item is returned, ')' returns the expression, and everything      *)
(* else (no item, or any other token) is Incomplete.                       *)
(* CloseParenOrUnexpected is the variant that answers "not expected here"  *)
(* to everything that is not ')'.                                          *)
(***************************************************************************)
parse_parenthesised_enter ==
  /\ pc = "parse_parenthesised"
  /\ stack' = Push(Frame("parse_parenthesised", "First", NoExpr))
  /\ pc' = "parse_expr"
  /\ UNCHANGED <<stdin, input, lexer, yielded, ret, result, hist>>

CloseParenOrUnexpected(item, expr) ==
  IF item.some /\ ~item.ok THEN Err(Lex(item.pos, item.msg))
  ELSE IF IsTok(item, {"RParen"}) THEN Ok(expr)
  ELSE Err(Lex(item.pos, UNEXPECTED_TOKEN))

CloseParen(item, expr) ==
  IF item.some /\ ~item.ok THEN Err(Lex(item.pos, item.msg))
  ELSE IF IsTok(item, {"RParen"}) THEN Ok(expr)
  ELSE Err(Incomplete)

parse_parenthesised_close ==
  /\ Returned("parse_parenthesised")
  /\ stack' = Pop
  /\ IF ~ret.ok
     THEN UNCHANGED <<lexer, yielded, ret>>
     ELSE /\ lexer' = AfterNext(input, lexer)
          /\ yielded' = Logged(input, lexer, yielded)
          /\ ret' = CloseParen(Front(input, lexer), ret.expr)
  /\ UNCHANGED <<stdin, input, pc, result, hist>>

(***************************************************************************)
(* parse_complete_expr after parse_expr, and the return of parse::eval:    *)
(* the stream must be exhausted; an error item is returned, any other      *)
(* item is "not expected here" at the item's position.                     *)
(* LeftoverIgnoresError is the variant that takes an error item for the    *)
(* end of the stream.                                                      *)
(***************************************************************************)
LeftoverIgnoresError(item, expr) ==
  IF ~item.some \/ ~item.ok THEN Ok(expr)
  ELSE Err(Lex(item.pos, UNEXPECTED_TOKEN))

Leftover(item, expr) ==
  IF ~item.some THEN Ok(expr)
  ELSE IF ~item.ok THEN Err(Lex(item.pos, item.msg))
  ELSE Err(Lex(item.pos, UNEXPECTED_TOKEN))

ResultKind(r) == IF r.ok THEN "Ok" ELSE r.err.kind

parse_complete_expr ==
  /\ Returned("parse_complete_expr")
  /\ stack' = Pop
  /\ pc' = "done"
  /\ ret' = NoResult
  /\ IF ~ret.ok
     THEN /\ result' = ret
          /\ UNCHANGED <<lexer, yielded>>
     ELSE /\ lexer' = AfterNext(input, lexer)
          /\ yielded' = Logged(input, lexer, yielded)
          /\ result' = Leftover(Front(input, lexer), ret.expr)
  /\ hist' = Append(hist, ResultKind(result'))
  /\ UNCHANGED <<stdin, input>>

(***************************************************************************)
(* The caller extends the text by one character and evaluates again; the   *)
(* lexer and the result of the evaluation before are gone by then.         *)
(***************************************************************************)
Extend(chars, bound) ==
  /\ pc = "done"
  /\ Len(input) < bound
  /\ \E c \in chars : input' = Append(input, c)
  /\ pc' = "idle"
  /\ lexer' = NewLexer
  /\ yielded' = <<>>
  /\ result' = NoResult
  /\ UNCHANGED <<stdin, stack, ret, hist>>

ExtendText == Extend(Alphabet, MaxLen)

ExtendExpression == Extend(GrammarAlphabet, MaxGrammarLen)

ExtendLive == Extend(LiveAlphabet, MaxLiveLen)

Step ==
  \/ Evaluate
  \/ parse_expr_enter
  \/ parse_expr_loop
  \/ parse_term_enter
  \/ parse_term_loop
  \/ parse_factor_enter
  \/ parse_factor_loop
  \/ parse_primary
  \/ parse_primary_neg
  \/ parse_parenthesised_enter
  \/ parse_parenthesised_close
  \/ parse_complete_expr

Next == Step \/ ExtendText

Spec == Init /\ [][Next]_vars

(***************************************************************************)
(* The same program on texts made of expression characters only.           *)
(***************************************************************************)
GrammarNext == Step \/ ExtendExpression

GrammarSpec == Init /\ [][GrammarNext]_vars

(***************************************************************************)
(* parse::eval is one synchronous call chain: once called it runs until    *)
(* it returns, so a step that can be taken is taken.                       *)
(***************************************************************************)
LiveNext == Step \/ ExtendLive

LiveSpec == Init /\ [][LiveNext]_vars /\ WF_vars(Step)


(***************************************************************************)
(* run() of src/lib.rs.  The prompts and the printed value or error        *)
(* message are output only and are left out.  pc takes three more values:  *)
(* "run_prompt" (top of the outer loop), "run_read" (top of the inner      *)
(* loop) and "returned".  parse::eval is the evaluation above: run calls   *)
(* it by moving to "idle" and goes on from "done".                         *)
(*                                                                         *)
(* Standard input holds at most MaxLines lines drawn from StdinLines; a    *)
(* line without its "\n" can only be the last one.                         *)
(***************************************************************************)
MaxLines == 2

StdinLines ==
  { <<"\n">>, <<" ", "\n">>, <<"1", "\n">>, <<"1", "+", "\n">>,
    <<"1", "^", "\n">>, <<"(", "-", "1", "\n">>, <<")", "\n">>,
    <<"&", "\n">>, <<"1", "*">> }

Terminated(line) == line[Len(line)] = "\n"

RECURSIVE LinesUpTo(_)
LinesUpTo(n) ==
  IF n = 0 THEN {<<>>}
  ELSE LinesUpTo(n - 1) \cup
       {<<l>> \o rest : l \in {x \in StdinLines : Terminated(x)},
                        rest \in {r \in LinesUpTo(n - 1) : Len(r) = n - 1}} \cup
       {<<l>> : l \in {x \in StdinLines : ~Terminated(x) /\ n = 1}}

RunInit ==
  /\ input = <<>>
  /\ lexer = NewLexer
  /\ yielded = <<>>
  /\ pc = "run_prompt"
  /\ stack = <<>>
  /\ ret = NoResult
  /\ result = NoResult
  /\ hist = <<>>
  /\ stdin \in LinesUpTo(MaxLines)

(***************************************************************************)
(* The outer loop: a fresh, empty buffer.                                  *)
(***************************************************************************)
run_new_buffer ==
  /\ pc = "run_prompt"
  /\ input' = <<>>
  /\ pc' = "run_read"
  /\ UNCHANGED <<lexer, yielded, stack, ret, result, hist, stdin>>

(***************************************************************************)
(* io::stdin().read_line(&mut input): appends the next line to the         *)
(* buffer; at end-of-input it appends nothing.                             *)
(***************************************************************************)
read_line(buf, in) == IF in = <<>> THEN buf ELSE buf \o Head(in)

AfterReadLine(in) == IF in = <<>> THEN in ELSE Tail(in)

(***************************************************************************)
(* input.is_empty() and input.trim().is_empty()                            *)
(***************************************************************************)
is_empty(buf) == buf = <<>>

trim_is_empty(buf) == \A k \in 1..Len(buf) : is_whitespace(buf[k])

(***************************************************************************)
(* The inner loop up to the call of parse::eval: read a line; return when  *)
(* the buffer is empty, leave the inner loop when it is blank, evaluate    *)
(* it otherwise.                                                           *)
(***************************************************************************)
AfterRead(buf) ==
  IF is_empty(buf) THEN "returned"
  ELSE IF trim_is_empty(buf) THEN "run_prompt"
  ELSE "idle"

run_read_line ==
  /\ pc = "run_read"
  /\ input' = read_line(input, stdin)
  /\ stdin' = AfterReadLine(stdin)
  /\ pc' = AfterRead(input')
  /\ UNCHANGED <<lexer, yielded, stack, ret, result, hist>>

(***************************************************************************)
(* The match on the result of parse::eval: Ok and Lex leave the inner      *)
(* loop, Incomplete goes round it with the buffer kept.  run keeps no      *)
(* record of the evaluations it has made.                                  *)
(***************************************************************************)
AfterEval(r) == IF ResultKind(r) = "Incomplete" THEN "run_read" ELSE "run_prompt"

run_match ==
  /\ pc = "done"
  /\ pc' = AfterEval(result)
  /\ hist' = <<>>
  /\ UNCHANGED <<input, lexer, yielded, stack, ret, result, stdin>>

RunNext ==
  \/ run_new_buffer
  \/ run_read_line
  \/ run_match
  \/ Step

(***************************************************************************)
(* run is one synchronous loop: a step that can be taken is taken.         *)
(***************************************************************************)
RunSpec == RunInit /\ [][RunNext]_vars /\ WF_vars(RunNext)

(***************************************************************************)
(*                              Properties                                 *)
(***************************************************************************)
Done == pc = "done"

LastYielded == yielded[Len(yielded)]

UNKNOWN_SYMBOL == "unknown symbol"

(***************************************************************************)
(* C1: evaluate returns Incomplete only when the token stream has run out  *)
(* where the grammar still requires a token: the last item the lexer was   *)
(* asked for is "no item".  A token present where ')' is required does     *)
(* not give Incomplete.                                                    *)
(***************************************************************************)
C1_IncompleteOnlyWhenExhausted ==
  (Done /\ ResultKind(result) = "Incomplete")
    => (yielded # <<>> /\ ~LastYielded.item.some)

(***************************************************************************)
(* C2: when the evaluation ends on a token that lexed successfully and is  *)
(* not accepted (a token that cannot start a primary, or a token left      *)
(* over after the complete expression), the result is                      *)
(* Lex(p, "not expected here") with p the position at which exactly that   *)
(* token starts in the text.                                               *)
(***************************************************************************)
C2_UnexpectedTokenPosition ==
  (/\ Done
   /\ yielded # <<>>
   /\ LastYielded.item.some
   /\ LastYielded.item.ok
   /\ ResultKind(result) # "Incomplete")
    => result = Err(Lex(LastYielded.start, UNEXPECTED_TOKEN))

(***************************************************************************)
(* C3: an error item of the lexer carries the position at which the        *)
(* offending run starts and the message "unknown symbol", and evaluate     *)
(* returns exactly Lex(that position, "unknown symbol").                   *)
(***************************************************************************)
C3_UnknownSymbolAtRunStart ==
  \A k \in 1..Len(yielded) :
    (yielded[k].item.some /\ ~yielded[k].item.ok)
      => /\ yielded[k].item.pos = yielded[k].start
         /\ yielded[k].item.msg = UNKNOWN_SYMBOL
         /\ Done => result = Err(Lex(yielded[k].start, UNKNOWN_SYMBOL))

(***************************************************************************)
(* C4: the position of every error other than Incomplete is an index into  *)
(* the text, 0 <= position < length, and the character there is the first  *)
(* character of the token or run the error is about, never whitespace.     *)
(***************************************************************************)
C4_ErrorPositionIsTokenStart ==
  (Done /\ ResultKind(result) = "Lex")
    => /\ result.err.pos \in 0..(Len(input) - 1)
       /\ ~is_whitespace(input[result.err.pos + 1])
       /\ result.err.pos = LastYielded.start

(***************************************************************************)
(* C10: the characters one lexer item consumes contain at most one '.',    *)
(* whatever character the literal starts with.                             *)
(***************************************************************************)
C10_AtMostOneDotPerLiteral ==
  \A k \in 1..Len(yielded) :
    CountOf(SubSeq(input, yielded[k].start + 1, yielded[k].end), ".") <= 1


(***************************************************************************)
(* C5: when evaluate returns Ok on a text, every prefix of the text cut    *)
(* at a token boundary evaluated to Ok or Incomplete, never to a Lex       *)
(* error; and a prefix that ends right after an operator or '(' or inside  *)
(* an unclosed parenthesis evaluated to Incomplete.                        *)
(***************************************************************************)
InLiteral(c) == is_ascii_digit(c) \/ c = "."

TokenBoundary(text, k) ==
  k = 0 \/ k = Len(text) \/ ~(InLiteral(text[k]) /\ InLiteral(text[k + 1]))

RECURSIVE LastVisible(_, _)
LastVisible(text, k) ==
  IF k = 0 THEN " "
  ELSE IF is_whitespace(text[k]) THEN LastVisible(text, k - 1)
  ELSE text[k]

OpenEnded(text, k) ==
  \/ LastVisible(text, k) \in {"+", "-", "*", "/", "^", "("}
  \/ CountOf(SubSeq(text, 1, k), "(") > CountOf(SubSeq(text, 1, k), ")")

C5_PrefixesOfOkAreOkOrIncomplete ==
  (Done /\ result.ok) =>
    \A k \in 0..(Len(input) - 1) :
      TokenBoundary(input, k) =>
        /\ hist[k + 1] \in {"Ok", "Incomplete"}
        /\ OpenEnded(input, k) => hist[k + 1] = "Incomplete"

C5_Witness ==
  /\ Done
  /\ result.ok
  /\ \E k \in 1..(Len(input) - 1) :
       /\ TokenBoundary(input, k)
       /\ hist[k + 1] = "Incomplete"
       /\ CountOf(SubSeq(input, 1, k), "(") > CountOf(SubSeq(input, 1, k), ")")
  /\ \E k \in 1..(Len(input) - 1) :
       TokenBoundary(input, k) /\ hist[k + 1] = "Ok"

(***************************************************************************)
(* The tokens of a text that evaluated to Ok: every item the lexer         *)
(* yielded but the closing "no item".                                      *)
(***************************************************************************)
Tokens == [k \in 1..(Len(yielded) - 1) |-> yielded[k].item.tok]

NoUnaryMinus(t) ==
  \A k \in 1..Len(t) :
    t[k].kind = "Dash" => (k > 1 /\ t[k - 1].kind \in {"Number", "RParen"})

RefOperator(kind) ==
  CASE kind = "Plus" -> "Add" [] kind = "Dash" -> "Sub" [] kind = "Star" -> "Mul"
    [] kind = "Slash" -> "Div" [] kind = "Percent" -> "Mod" [] kind = "Caret" -> "Pow"

(***************************************************************************)
(* The tree of the reference grammar, by splitting: an expression splits   *)
(* at its last '+' or '-' outside parentheses, a term at its last '*',     *)
(* '/' or '%' outside parentheses, a factor at its first '^' outside       *)
(* parentheses; a primary is a number or a parenthesised expression.       *)
(***************************************************************************)
CountKind(t, kind) == Cardinality({k \in 1..Len(t) : t[k].kind = kind})

Outside(t, kinds) ==
  {k \in 1..Len(t) :
     /\ t[k].kind \in kinds
     /\ CountKind(SubSeq(t, 1, k - 1), "LParen")
          = CountKind(SubSeq(t, 1, k - 1), "RParen")}

Last(S) == CHOOSE k \in S : \A j \in S : j <= k

First(S) == CHOOSE k \in S : \A j \in S : k <= j

RECURSIVE RefExpression(_), RefTerm(_), RefFactor(_), RefPrimary(_)
RefExpression(t) ==
  LET S == Outside(t, {"Plus", "Dash"}) IN
  IF S = {} THEN RefTerm(t)
  ELSE Binary(RefOperator(t[Last(S)].kind),
              RefExpression(SubSeq(t, 1, Last(S) - 1)),
              RefTerm(SubSeq(t, Last(S) + 1, Len(t))))

RefTerm(t) ==
  LET S == Outside(t, {"Star", "Slash", "Percent"}) IN
  IF S = {} THEN RefFactor(t)
  ELSE Binary(RefOperator(t[Last(S)].kind),
              RefTerm(SubSeq(t, 1, Last(S) - 1)),
              RefFactor(SubSeq(t, Last(S) + 1, Len(t))))

RefFactor(t) ==
  LET S == Outside(t, {"Caret"}) IN
  IF S = {} THEN RefPrimary(t)
  ELSE Binary("Pow",
              RefPrimary(SubSeq(t, 1, First(S) - 1)),
              RefFactor(SubSeq(t, First(S) + 1, Len(t))))

RefPrimary(t) ==
  IF Len(t) = 1 /\ t[1].kind = "Number" THEN Num(t[1].val)
  ELSE IF Len(t) >= 3 /\ t[1].kind = "LParen" /\ t[Len(t)].kind = "RParen"
       THEN RefExpression(SubSeq(t, 2, Len(t) - 1))
       ELSE NoExpr

(***************************************************************************)
(* C6: for a well-formed token sequence without unary minus, the tree      *)
(* parse builds is the tree of the reference grammar: '^' over '*' '/'     *)
(* '%' over '+' '-', the two lower levels grouping to the left, '^' to     *)
(* the right, a parenthesised expression being a primary.                  *)
(***************************************************************************)
C6_TreeOfReferenceGrammar ==
  (Done /\ result.ok /\ NoUnaryMinus(Tokens))
    => result.expr = RefExpression(Tokens)

C6_Witness ==
  /\ Done
  /\ result.ok
  /\ NoUnaryMinus(Tokens)
  /\ result.expr[1] = "Binary"
  /\ result.expr[2] = "Sub"
  /\ result.expr[3][1] = "Binary"
  /\ result.expr[3][2] = "Add"
  /\ result.expr[4] # result.expr[3][4]

(***************************************************************************)
(* The grammar of the specification, read as written, with the rule that   *)
(* parses the operand of a unary '-' as a parameter ("term" or "factor"):  *)
(*   expression := term (('+' | '-') term)*                                *)
(*   term       := factor (('*' | '/' | '%') factor)*                      *)
(*   factor     := primary ('^' factor)?                                   *)
(*   primary    := NUMBER | '(' expression ')' | '-' operand               *)
(* Each operator gives the tree and the tokens that follow it.             *)
(***************************************************************************)
Failed == [e |-> NoExpr, rest |-> <<>>]

HeadIs(t, kinds) == t # <<>> /\ t[1].kind \in kinds

RECURSIVE GExpression(_, _), GExpressionRest(_, _, _), GTerm(_, _),
          GTermRest(_, _, _), GFactor(_, _), GPrimary(_, _)
GExpression(t, operand) ==
  LET f == GTerm(t, operand) IN GExpressionRest(f.e, f.rest, operand)

GExpressionRest(lhs, t, operand) ==
  IF HeadIs(t, {"Plus", "Dash"})
  THEN LET r == GTerm(Tail(t), operand)
       IN  GExpressionRest(Binary(RefOperator(t[1].kind), lhs, r.e), r.rest, operand)
  ELSE [e |-> lhs, rest |-> t]

GTerm(t, operand) ==
  LET f == GFactor(t, operand) IN GTermRest(f.e, f.rest, operand)

GTermRest(lhs, t, operand) ==
  IF HeadIs(t, {"Star", "Slash", "Percent"})
  THEN LET r == GFactor(Tail(t), operand)
       IN  GTermRest(Binary(RefOperator(t[1].kind), lhs, r.e), r.rest, operand)
  ELSE [e |-> lhs, rest |-> t]

GFactor(t, operand) ==
  LET p == GPrimary(t, operand) IN
  IF HeadIs(p.rest, {"Caret"})
  THEN LET r == GFactor(Tail(p.rest), operand)
       IN  [e |-> Binary("Pow", p.e, r.e), rest |-> r.rest]
  ELSE p

GPrimary(t, operand) ==
  IF HeadIs(t, {"Number"}) THEN [e |-> Num(t[1].val), rest |-> Tail(t)]
  ELSE IF HeadIs(t, {"LParen"})
       THEN LET r == GExpression(Tail(t), operand)
            IN  IF HeadIs(r.rest, {"RParen"})
                THEN [e |-> r.e, rest |-> Tail(r.rest)]
                ELSE Failed
  ELSE IF HeadIs(t, {"Dash"})
       THEN LET r == IF operand = "term" THEN GTerm(Tail(t), operand)
                     ELSE GFactor(Tail(t), operand)
            IN  [e |-> Unary("Neg", r.e), rest |-> r.rest]
  ELSE Failed

GrammarTree(t, operand) == GExpression(t, operand).e

(***************************************************************************)
(* C7 as stated: the operand of a unary '-' is parsed with the term-level  *)
(* rule (the whole product of factors that follows), so "-a*b" is          *)
(* Unary(Neg, Binary(Mul, a, b)).                                          *)
(***************************************************************************)
C7_NegOperandIsTerm ==
  (Done /\ result.ok /\ ~NoUnaryMinus(Tokens))
    => result.expr = GrammarTree(Tokens, "term")

(***************************************************************************)
(* C7 as amended: the operand of a unary '-' is parsed with the            *)
(* factor-level rule: one primary with its '^' chain; it stops before a    *)
(* following '*', '/', '%', '+' or '-'.  "-a^b" is Unary(Neg, Pow(a, b)),  *)
(* "-a*b" is Binary(Mul, Unary(Neg, a), b), "-a+b" is                      *)
(* Binary(Add, Unary(Neg, a), b).                                          *)
(***************************************************************************)
C7_NegOperandIsFactor ==
  (Done /\ result.ok /\ ~NoUnaryMinus(Tokens))
    => result.expr = GrammarTree(Tokens, "factor")

C7_Witness ==
  /\ Done
  /\ result.ok
  /\ result.expr[1] = "Binary"
  /\ result.expr[2] = "Mul"
  /\ result.expr[3][1] = "Unary"
  /\ result.expr # GrammarTree(Tokens, "term")

(***************************************************************************)
(* C8: evaluate terminates.  Every call of a parse rule made after the     *)
(* first either follows the consumption of an item or goes from a rule to  *)
(* a rule further down the grammar; every item the lexer yields consumed   *)
(* at least one character, and "no item" is yielded at the end of the      *)
(* text only; and every evaluation that has started returns.               *)
(***************************************************************************)
Rules == {"parse_parenthesised", "parse_expr", "parse_term", "parse_factor",
          "parse_primary"}

RuleDepth(fn) ==
  CASE fn = "parse_parenthesised" -> 0 [] fn = "parse_expr" -> 1
    [] fn = "parse_term" -> 2 [] fn = "parse_factor" -> 3
    [] fn = "parse_primary" -> 4

Consumed(lx, log) == Len(log) - (IF lx.peeked.full THEN 1 ELSE 0)

CallProgress ==
  (pc' \in Rules /\ pc # "idle") =>
    \/ Consumed(lexer', yielded') > Consumed(lexer, yielded)
    \/ pc \in Rules /\ RuleDepth(pc') > RuleDepth(pc)

LexerProgress ==
  \A k \in 1..Len(yielded) :
    IF yielded[k].item.some
    THEN yielded[k].end > yielded[k].start
    ELSE yielded[k].end = Len(input)

C8_EvaluateTerminates ==
  /\ [][CallProgress]_vars
  /\ []LexerProgress
  /\ (pc # "done") ~> (pc = "done")

C8_Witness ==
  /\ Done
  /\ result.ok
  /\ result.expr[1] = "Binary"
  /\ result.expr[2] = "Pow"

(***************************************************************************)
(* C9: once the lexer has yielded an error item the parser asks it for no  *)
(* further item; the error is held in the lookahead or is being returned,  *)
(* and it is the result of evaluate.                                       *)
(***************************************************************************)
IsErrorItem(item) == item.some /\ ~item.ok

C9_ErrorEndsTheStream ==
  \A k \in 1..Len(yielded) :
    IsErrorItem(yielded[k].item) =>
      LET e == Err(Lex(yielded[k].item.pos, yielded[k].item.msg)) IN
      /\ k = Len(yielded)
      /\ IF Done THEN result = e
         ELSE \/ lexer.peeked = [full |-> TRUE, item |-> yielded[k].item]
              \/ ret = e

C9_Witness ==
  /\ Done
  /\ ResultKind(result) = "Lex"
  /\ Len(yielded) >= 3
  /\ IsErrorItem(LastYielded.item)
  /\ yielded[Len(yielded) - 1].item.tok.kind = "Number"

(***************************************************************************)
(* C11: once standard input is at end-of-input, run() returns, whatever    *)
(* state the loop is in, the accumulation of an Incomplete buffer          *)
(* included.                                                               *)
(***************************************************************************)
C11_RunReturnsAtEndOfInput == (stdin = <<>>) ~> (pc = "returned")

=============================================================================
